---------------------------- MODULE Spec2Model ----------------------------
(***************************************************************************)
(* Model of the request-orchestration layer of static/js/app.js:           *)
(*   - makeApiRequest (the request envelope) and the UI actions calling it *)
(*   - the handlers' checks before a request (sign selected, confirmation) *)
(*   - batches: the report of the batch endpoint and its rendering         *)
(*   - loadAvailableModels / changeModel (the configuration state)         *)
(*                                                                         *)
(* JavaScript runs one task at a time.  A task (a UI event, a timer        *)
(* callback, a network event) runs to completion, and the promise          *)
(* continuations it makes runnable run before the next task starts.  Each  *)
(* action of the model is one task together with the continuations it      *)
(* resumes, up to the next await.                                          *)
(*                                                                         *)
(* JavaScript values are modelled as strings: "true", "false", "1",        *)
(* "undefined", "null" and text.  Truthy is JavaScript's ToBoolean.        *)
(***************************************************************************)
EXTENDS Integers, Sequences, FiniteSets, TLC

VARIABLES
    call,          \* makeApiRequest invocations: id -> activation record
    classActive,   \* loading element id -> its classList contains 'active'
    innerHTML,     \* result element id -> what is rendered in it
    appState,      \* appState.selectedModel, appState.availableModels
    localStorage,  \* localStorage['selectedModel'] ("null" when absent)
    selectOptions, \* option values of #global-model-select, in order
    selectValue,   \* value of #global-model-select ("" with no option)
    statusDot,     \* classes of #model-status-dot
    statusText,    \* text of #model-status-text
    loads,         \* loadAvailableModels invocations awaiting their response
    confirmTimers, \* pending 1500 ms timeouts set by changeModel
    refreshed,     \* history: a loadAvailableModels of this page has succeeded
    picked,        \* history: the user has picked a model on this page
    lastOp,        \* history: the last configuration operation and what it read
    scenario,      \* history: how far the run has followed RestartScenario
    batch,         \* the batch the backend runs, its report and its display
    chat           \* appState.chatMessages and the sendChatMessage invocations

vars == <<call, classActive, innerHTML, appState, localStorage,
          selectOptions, selectValue, statusDot, statusText, loads,
          confirmTimers, refreshed, picked, lastOp, scenario, batch, chat>>

envVars == <<call, classActive, innerHTML>>
modelVars == <<appState, localStorage, selectOptions, selectValue, statusDot,
               statusText, loads, confirmTimers, refreshed, picked, lastOp,
               scenario>>
pageVars == <<modelVars, chat>>
cfgVars == <<pageVars, batch>>

-----------------------------------------------------------------------------
(* Bounds *)

MaxCalls == 2          \* makeApiRequest invocations
MaxTicks == 3          \* 250 ms steps an invocation is followed for
MaxModels == 2         \* models in a list returned by /api/ollama/models
MaxLoads == 2          \* loadAvailableModels invocations in flight
MaxItems == 7          \* units of work declared by a batch
MaxConfirmTimers == 2  \* pending timeouts of changeModel

CallIds == 1..MaxCalls

-----------------------------------------------------------------------------
(* JavaScript values *)

JsNull == [kind |-> "null", success |-> "undefined", error |-> "undefined"]
NoBody == [kind |-> "none", success |-> "undefined", error |-> "undefined"]
Malformed == [kind |-> "malformed", success |-> "undefined", error |-> "undefined"]

Truthy(v) == v \notin {"false", "0", "", "undefined", "null"}

\* Response bodies the backend (or a proxy in front of it) can send.
JsonObjects == [kind : {"object"}, success : {"true", "false", "1"},
                error : {"undefined", "x"}]
Bodies == JsonObjects \cup {JsNull, Malformed}

Statuses == {200, 500}
ResponseOk(status) == status >= 200 /\ status <= 299

MinimumLoadingTime == 500

-----------------------------------------------------------------------------
(* The UI actions that go through makeApiRequest, with the element ids     *)
(* they pass.                                                              *)

Sites == {"generateIndividualHoroscope", "generateComfyUIVideo",
          "uploadCurrentSignToYouTube"}

\* The handlers of the generation and upload buttons
Operations ==
    {"generateIndividualHoroscope", "generateDailyHoroscopes",
     "generateComfyUIVideo", "generateComfyUIBatchVideos",
     "generateSingleSignMontage", "generateFullMontage",
     "uploadCurrentSignToYouTube", "uploadBatchToYouTube",
     "uploadCurrentSignToTikTok"}

\* The handlers for one sign: they read the sign select (lines 300, 668,
\* 730, 836, 896)
SignOperations ==
    {"generateIndividualHoroscope", "generateComfyUIVideo",
     "generateSingleSignMontage", "uploadCurrentSignToYouTube",
     "uploadCurrentSignToTikTok"}

\* The handlers that start a batch on the backend: 12 horoscopes (line
\* 332), 12 videos (line 711), 12 montages (line 773), every video (873)
BatchOperations ==
    {"generateDailyHoroscopes", "generateComfyUIBatchVideos",
     "generateFullMontage", "uploadBatchToYouTube"}

SiteLoading(site) ==
    IF site = "generateIndividualHoroscope" THEN "individual-loading"
    ELSE IF site = "generateDailyHoroscopes" THEN "daily-loading"
    ELSE "video-loading"

SiteResult(site) ==
    IF site = "generateIndividualHoroscope" THEN "individual-result"
    ELSE IF site = "generateDailyHoroscopes" THEN "daily-results"
    ELSE "video-result"

LoadingIds == {SiteLoading(s) : s \in Operations}
ResultIds == {SiteResult(s) : s \in Operations}

\* What the user can have in the sign select: nothing, or a sign
SignValues == {"", "aries"}

RequiresSignNever(op) == FALSE

\* lines 303, 673, 731, 837, 897: the handler has if (!sign) { alert(...);
\* return; }
RequiresSign(op) ==
    op \in {"generateIndividualHoroscope", "generateComfyUIVideo",
            "generateSingleSignMontage", "uploadCurrentSignToYouTube",
            "uploadCurrentSignToTikTok"}

\* lines 704, 735, 769, 841, 869, 901: if (!confirm(...)) return;
RequiresConfirm(op) ==
    op \in {"generateComfyUIBatchVideos", "generateSingleSignMontage",
            "generateFullMontage", "uploadCurrentSignToYouTube",
            "uploadBatchToYouTube", "uploadCurrentSignToTikTok"}

\* The elements of the page: document.getElementById finds these.
DomIds == LoadingIds \cup ResultIds
HasElement(id) == id \in DomIds

-----------------------------------------------------------------------------
(* makeApiRequest *)

\* One invocation.  age is the time since the invocation started, in ms; it
\* stops when the invocation resolves (its duration).  arrivedAge is the age
\* at which the response was complete (its body received) or fetch rejected.
IdleCall ==
    [pc |-> "idle", site |-> "none", timerFired |-> FALSE,
     fetchState |-> "none", status |-> 0, body |-> NoBody,
     bodyArrived |-> FALSE, age |-> 0, arrivedAge |-> 0, ret |-> JsNull, settled |-> "pending",
     logged |-> FALSE, shown |-> "", rendered |-> FALSE, events |-> <<>>,
     sign |-> "unread", confirmed |-> "unasked"]

InFlight(i) == call[i].pc \in {"awaitAll", "awaitJson"}

Empty == [kind |-> "empty", text |-> "", by |-> 0]
ErrorBox(message, i) == [kind |-> "error", text |-> message, by |-> i]
SuccessBox(i) == [kind |-> "success", text |-> "", by |-> i]

Thrown(message) == [threw |-> TRUE, message |-> message, data |-> JsNull]
Returned(data) == [threw |-> FALSE, message |-> "", data |-> data]

HttpMessage(status) == "Erreur HTTP " \o ToString(status)

\* line 69: data.error || `Erreur HTTP ${apiResponse.status}`
ErrorText(data, status) ==
    IF Truthy(data.error) THEN data.error ELSE HttpMessage(status)

TryBlockStrict(status, body) ==
    IF body.kind = "malformed" THEN Thrown("Unexpected token < in JSON")
    ELSE IF body.kind = "null" THEN Thrown("Cannot read properties of null")
    ELSE IF ~ResponseOk(status) \/ body.success # "true"
         THEN Thrown(ErrorText(body, status))
         ELSE Returned(body)

\* lines 67-71: what the try block does with the response and its body.
\* json() rejects on a body that is not JSON; reading a property of null
\* throws a TypeError.
TryBlock(status, body) ==
    IF body.kind = "malformed" THEN Thrown("Unexpected token < in JSON")
    ELSE IF body.kind = "null" THEN Thrown("Cannot read properties of null")
    ELSE IF ~ResponseOk(status) \/ ~Truthy(body.success)
         THEN Thrown(ErrorText(body, status))
         ELSE Returned(body)

PromiseAllNoFloor(fetchState, timerFired) == fetchState = "fulfilled"

PromiseAllNever(fetchState, timerFired) == FALSE

\* line 65: Promise.all([apiCallPromise, minimumLoadingTime]) is fulfilled
\* once both are; it rejects as soon as apiCallPromise does.
PromiseAllFulfilled(fetchState, timerFired) ==
    fetchState = "fulfilled" /\ timerFired

\* lines 52-65: the synchronous part of makeApiRequest, up to the await, in
\* the invocation whose record so far is c
Dispatch(i, c, site) ==
    /\ call' = [call EXCEPT ![i] =
                  [c EXCEPT !.pc = "awaitAll", !.site = site,
                            !.fetchState = "pending",
                            !.events = @ \o <<"setTimeout", "fetch">> \o
                                (IF HasElement(SiteLoading(site))
                                 THEN <<"addActive">> ELSE <<>>) \o
                                (IF HasElement(SiteResult(site))
                                 THEN <<"clearResult">> ELSE <<>>)]]
    /\ classActive' = IF HasElement(SiteLoading(site))
                      THEN [classActive EXCEPT ![SiteLoading(site)] = TRUE]
                      ELSE classActive
    /\ innerHTML' = IF HasElement(SiteResult(site))
                    THEN [innerHTML EXCEPT ![SiteResult(site)] = Empty]
                    ELSE innerHTML

\* lines 52-65: makeApiRequest is called with the element ids of site
MakeApiRequest(i, site) ==
    /\ call[i].pc = "idle"
    /\ \A j \in CallIds : j < i => call[j].pc # "idle"
    /\ Dispatch(i, call[i], site)
    /\ UNCHANGED cfgVars

\* A button is clicked and its handler runs up to its first await: with no
\* sign where one is required it alerts and returns (lines 303-306); where
\* it asks for a confirmation and the user declines it returns (line 704);
\* otherwise it calls makeApiRequest.
UserAction(i, op, sign, accept) ==
    /\ call[i].pc = "idle"
    /\ \A j \in CallIds : j < i => call[j].pc # "idle"
    /\ IF RequiresSign(op) /\ sign = ""
       THEN /\ call' = [call EXCEPT ![i] =
                          [@ EXCEPT !.pc = "returned", !.site = op,
                                    !.sign = sign,
                                    !.events = @ \o <<"alert">>]]
            /\ UNCHANGED <<classActive, innerHTML>>
       ELSE IF RequiresConfirm(op) /\ ~accept
       THEN /\ call' = [call EXCEPT ![i] =
                          [@ EXCEPT !.pc = "returned", !.site = op,
                                    !.sign = IF op \in SignOperations
                                             THEN sign ELSE @,
                                    !.confirmed = "false",
                                    !.events = @ \o <<"confirm">>]]
            /\ UNCHANGED <<classActive, innerHTML>>
       ELSE Dispatch(i, [call[i] EXCEPT
                            !.sign = IF op \in SignOperations THEN sign ELSE @,
                            !.confirmed = IF RequiresConfirm(op)
                                          THEN "true" ELSE "unasked",
                            !.events = @ \o (IF RequiresConfirm(op)
                                              THEN <<"confirm">> ELSE <<>>)],
                     op)
    /\ UNCHANGED cfgVars

\* lines 65-67: with Promise.all fulfilled the function calls json() and
\* awaits it
AfterAll(c) ==
    IF c.pc = "awaitAll" /\ PromiseAllFulfilled(c.fetchState, c.timerFired)
    THEN [c EXCEPT !.pc = "awaitJson"]
    ELSE c

\* line 57: the timer callback resolves minimumLoadingTime
TimerFire(i) ==
    /\ call[i].pc \notin {"idle", "returned"}
    /\ ~call[i].timerFired
    /\ call' = [call EXCEPT ![i] = AfterAll([@ EXCEPT !.timerFired = TRUE])]
    /\ UNCHANGED <<classActive, innerHTML, cfgVars>>

\* line 58: the fetch promise is fulfilled with a Response
FetchFulfil(i, status) ==
    /\ call[i].pc = "awaitAll"
    /\ call[i].fetchState = "pending"
    /\ call' = [call EXCEPT ![i] =
                  AfterAll([@ EXCEPT !.fetchState = "fulfilled",
                                     !.status = status])]
    /\ UNCHANGED <<classActive, innerHTML, cfgVars>>

CompleteNoFinally(i, c, out) ==
    LET lid == SiteLoading(c.site)
        rid == SiteResult(c.site)
        shown == out.threw /\ HasElement(rid)
    IN  /\ call' = [call EXCEPT ![i] =
                      [c EXCEPT !.pc = "done",
                                !.ret = IF out.threw THEN JsNull ELSE out.data,
                                !.settled = "fulfilled",
                                !.logged = out.threw,
                                !.shown = IF shown THEN out.message ELSE "",
                                !.rendered = ~out.threw,
                                !.events = @ \o
                                    (IF out.threw THEN <<"console.error">> ELSE <<>>) \o
                                    (IF shown THEN <<"showError">> ELSE <<>>) \o
                                    (IF HasElement(lid) /\ ~out.threw
                                     THEN <<"removeActive">> ELSE <<>>) \o
                                    <<"resolve">>]]
        /\ classActive' = IF HasElement(lid) /\ ~out.threw
                          THEN [classActive EXCEPT ![lid] = FALSE]
                          ELSE classActive
        /\ innerHTML' = IF shown
                        THEN [innerHTML EXCEPT ![rid] = ErrorBox(out.message, i)]
                        ELSE IF ~out.threw
                        THEN [innerHTML EXCEPT ![rid] = SuccessBox(i)]
                        ELSE innerHTML

CompleteUncaught(i, c, out) ==
    LET lid == SiteLoading(c.site)
        rid == SiteResult(c.site)
    IN  /\ call' = [call EXCEPT ![i] =
                      [c EXCEPT !.pc = "done",
                                !.ret = IF out.threw THEN JsNull ELSE out.data,
                                !.settled = IF out.threw THEN "rejected"
                                            ELSE "fulfilled",
                                !.rendered = ~out.threw,
                                !.events = @ \o
                                    (IF HasElement(lid) THEN <<"removeActive">> ELSE <<>>) \o
                                    <<IF out.threw THEN "reject" ELSE "resolve">>]]
        /\ classActive' = IF HasElement(lid)
                          THEN [classActive EXCEPT ![lid] = FALSE]
                          ELSE classActive
        /\ innerHTML' = IF ~out.threw
                        THEN [innerHTML EXCEPT ![rid] = SuccessBox(i)]
                        ELSE innerHTML

CompleteRenderAlways(i, c, out) ==
    LET lid == SiteLoading(c.site)
        rid == SiteResult(c.site)
        shown == out.threw /\ HasElement(rid)
    IN  /\ call' = [call EXCEPT ![i] =
                      [c EXCEPT !.pc = "done",
                                !.ret = IF out.threw THEN JsNull ELSE out.data,
                                !.settled = "fulfilled",
                                !.logged = out.threw,
                                !.shown = IF shown THEN out.message ELSE "",
                                !.rendered = TRUE,
                                !.events = @ \o
                                    (IF out.threw THEN <<"console.error">> ELSE <<>>) \o
                                    (IF shown THEN <<"showError">> ELSE <<>>) \o
                                    (IF HasElement(lid) THEN <<"removeActive">> ELSE <<>>) \o
                                    <<"resolve">>]]
        /\ classActive' = IF HasElement(lid)
                          THEN [classActive EXCEPT ![lid] = FALSE]
                          ELSE classActive
        /\ innerHTML' = [innerHTML EXCEPT ![rid] = SuccessBox(i)]

\* lines 71-78: return data, or catch (console.error, showError, return
\* null); finally remove 'active'.  Then the caller's continuation:
\* `if (response) resultDiv.innerHTML = ...` (lines 319-321, 695-697, 855-862)
Complete(i, c, out) ==
    LET lid == SiteLoading(c.site)
        rid == SiteResult(c.site)
        shown == out.threw /\ HasElement(rid)
    IN  /\ call' = [call EXCEPT ![i] =
                      [c EXCEPT !.pc = "done",
                                !.ret = IF out.threw THEN JsNull ELSE out.data,
                                !.settled = "fulfilled",
                                !.logged = out.threw,
                                !.shown = IF shown THEN out.message ELSE "",
                                !.rendered = ~out.threw,
                                !.events = @ \o
                                    (IF out.threw THEN <<"console.error">> ELSE <<>>) \o
                                    (IF shown THEN <<"showError">> ELSE <<>>) \o
                                    (IF HasElement(lid) THEN <<"removeActive">> ELSE <<>>) \o
                                    <<"resolve">>]]
        /\ classActive' = IF HasElement(lid)
                          THEN [classActive EXCEPT ![lid] = FALSE]
                          ELSE classActive
        /\ innerHTML' = IF shown
                        THEN [innerHTML EXCEPT ![rid] = ErrorBox(out.message, i)]
                        ELSE IF ~out.threw
                        THEN [innerHTML EXCEPT ![rid] = SuccessBox(i)]
                        ELSE innerHTML

\* line 58: the fetch promise is rejected (network unreachable); Promise.all
\* rejects with it and the catch block runs
FetchReject(i) ==
    /\ call[i].pc = "awaitAll"
    /\ call[i].fetchState = "pending"
    /\ Complete(i, [call[i] EXCEPT !.fetchState = "rejected",
                                   !.arrivedAge = call[i].age],
                Thrown("Failed to fetch"))
    /\ UNCHANGED cfgVars

\* line 67: apiResponse.json() settles, with the parsed body or a SyntaxError
JsonSettle(i, body) ==
    /\ call[i].pc = "awaitJson"
    /\ Complete(i, [call[i] EXCEPT !.body = body],
                TryBlock(call[i].status, body))
    /\ UNCHANGED cfgVars

\* line 67: the body of the response has been received; json() can settle
BodyArrive(i) ==
    /\ InFlight(i)
    /\ call[i].fetchState = "fulfilled"
    /\ ~call[i].bodyArrived
    /\ call' = [call EXCEPT ![i].bodyArrived = TRUE,
                            ![i].arrivedAge = call[i].age]
    /\ UNCHANGED <<classActive, innerHTML, cfgVars>>

\* line 67: json() settles once the body is there
JsonSettleOnTime(i, body) ==
    /\ call[i].bodyArrived
    /\ JsonSettle(i, body)

\* Time passes: half the floor (250 ms) at a time, for every invocation in
\* flight.  A timer fires at its deadline and json() settles as soon as it
\* has been called and the body is there, so time does not pass while
\* either is due.
Tick ==
    /\ \E i \in CallIds : InFlight(i)
    /\ \A i \in CallIds : InFlight(i) =>
          /\ call[i].pc = "awaitJson" => ~call[i].bodyArrived
          /\ ~call[i].timerFired => call[i].age < MinimumLoadingTime
          /\ call[i].age < MaxTicks * (MinimumLoadingTime \div 2)
    /\ call' = [i \in CallIds |->
                  IF InFlight(i)
                  THEN [call[i] EXCEPT !.age = @ + MinimumLoadingTime \div 2]
                  ELSE call[i]]
    /\ UNCHANGED <<classActive, innerHTML, cfgVars>>

\* line 57: setTimeout(resolve, 500) runs its callback after 500 ms
TimerFireOnTime(i) ==
    /\ call[i].age >= MinimumLoadingTime \/ call[i].pc = "done"
    /\ TimerFire(i)

-----------------------------------------------------------------------------
(* Batches: the backend runs the units of a batch request and answers with  *)
(* a report; the handler renders it.                                        *)

\* The batch handlers that render one entry per unit
ReportOperations == {"generateComfyUIBatchVideos", "uploadBatchToYouTube"}

NoDisplay == [summary |-> [successes |-> 0, failures |-> 0], lines |-> <<>>]

IdleBatch ==
    [status |-> "idle", invocation |-> 0, op |-> "none", declared |-> 0,
     next |-> 0, attempts |-> <<>>, results |-> <<>>,
     summary |-> [successes |-> 0, failures |-> 0], display |-> NoDisplay]

\* The result recorded for one unit: identifier and outcome
BatchItemResult(item, ok) ==
    [item |-> item, success |-> ok,
     error |-> IF ok THEN "undefined" ELSE "x"]

AfterItemAbortOnFailure(item, declared, ok) ==
    IF ok THEN item + 1 ELSE declared + 1

\* The unit attempted after item: the next one, whatever the outcome was
AfterItem(item, declared, ok) == item + 1

\* The derived summary: counts of successes and failures
Summary(results) ==
    [successes |-> Cardinality({k \in DOMAIN results : results[k].success}),
     failures |-> Cardinality({k \in DOMAIN results : ~results[k].success})]

\* lines 948-951 (li class, 'Réussi (...)' or 'Échoué - ' + error) and
\* line 888 (mark, 'OK' or the error): one entry of the list
RenderItem(op, res) ==
    [item |-> res.item, success |-> res.success,
     text |-> IF op = "generateComfyUIBatchVideos"
              THEN (IF res.success THEN "Réussi"
                    ELSE "Échoué - " \o res.error)
              ELSE (IF res.success THEN "OK" ELSE res.error)]

RenderBatchSuccessesOnly(op, results, summary) ==
    LET ok == SelectSeq(results, LAMBDA res : res.success)
    IN  [summary |-> summary,
         lines |-> [k \in DOMAIN ok |-> RenderItem(op, ok[k])]]

\* lines 946-960 (data.results.map, data.message) and lines 884-891
\* (response.summary, response.details.forEach)
RenderBatch(op, results, summary) ==
    [summary |-> summary,
     lines |-> [k \in DOMAIN results |-> RenderItem(op, results[k])]]

\* The request of invocation i reaches the backend, which starts on the
\* batch: n units, in the order 1..n
BatchStart(i, n) ==
    /\ InFlight(i)
    /\ call[i].site \in ReportOperations
    /\ call[i].fetchState = "pending"
    /\ batch.invocation # i
    /\ batch.status # "running"
    /\ batch' = [IdleBatch EXCEPT !.status = "running", !.invocation = i,
                                  !.op = call[i].site, !.declared = n,
                                  !.next = 1]
    /\ UNCHANGED <<envVars, pageVars>>

\* The backend attempts the next unit; it succeeds or fails, the result is
\* recorded and the batch goes on; after the last unit the report is ready
BatchItem(ok) ==
    /\ batch.status = "running"
    /\ LET item == batch.next
           results == Append(batch.results, BatchItemResult(item, ok))
           next == AfterItem(item, batch.declared, ok)
       IN  batch' = [batch EXCEPT
                        !.attempts = Append(@, item),
                        !.results = results,
                        !.next = next,
                        !.status = IF next > batch.declared
                                   THEN "complete" ELSE "running",
                        !.summary = IF next > batch.declared
                                    THEN Summary(results) ELSE @]
    /\ UNCHANGED <<envVars, pageVars>>

\* line 58: the backend answers the request of invocation i with the report
BatchRespond(i) ==
    /\ batch.invocation = i
    /\ batch.status = "complete"
    /\ FetchFulfil(i, 200)

\* lines 67-71, then lines 721-723 or 883-892: json() gives the report,
\* makeApiRequest returns it and the handler renders it
BatchSettle(i) ==
    /\ call[i].pc = "awaitJson"
    /\ batch.invocation = i
    /\ batch.status = "complete"
    /\ LET body == [kind |-> "object", success |-> "true",
                    error |-> "undefined"]
       IN  Complete(i, [call[i] EXCEPT !.body = body],
                    TryBlock(call[i].status, body))
    /\ batch' = [batch EXCEPT
                    !.status = "displayed",
                    !.display = RenderBatch(batch.op, batch.results,
                                            batch.summary)]
    /\ UNCHANGED pageVars

\* line 58: the request of invocation i does not reach the backend
RequestLost(i) ==
    /\ batch.invocation # i
    /\ FetchReject(i)

\* A batch handler is run, and the user accepts its confirmation, while no
\* request is in flight
BatchLaunch(i, op) ==
    /\ \A j \in CallIds : ~InFlight(j)
    /\ UserAction(i, op, "", TRUE)

-----------------------------------------------------------------------------
(* The chat: addChatMessage, sendChatMessage *)

\* What the chat input can hold when the message is sent
ChatInputs == {"", "  ", " hi ", "yo"}

\* line 519: input.value.trim()
Trim(text) ==
    IF text = "  " THEN "" ELSE IF text = " hi " THEN "hi" ELSE text

\* What /api/ollama/chat can answer: a JSON object, null, or no JSON
ChatObject(success, error, response) ==
    [kind |-> "object", success |-> success, error |-> error,
     response |-> response]
ChatObjects == {ChatObject("true", "undefined", "reply"),
                ChatObject("true", "undefined", "undefined"),
                ChatObject("false", "x", "undefined"),
                ChatObject("false", "undefined", "reply")}
NullChatBody == [kind |-> "null", success |-> "undefined",
                 error |-> "undefined", response |-> "undefined"]
MalformedChatBody == [kind |-> "malformed", success |-> "undefined",
                      error |-> "undefined", response |-> "undefined"]
ChatBodies == ChatObjects \cup {NullChatBody, MalformedChatBody}

\* line 542: the text of the entry added by the catch block (the cross mark
\* that opens it is written [x])
ChatError(message) == "[x] Erreur de connexion: " \o message

\* lines 536-542: the content of the assistant entry, given the status and
\* the body of the response.  json() rejects on a body that is not JSON,
\* reading a property of null throws, and so does addChatMessage on a
\* response that is not a string (content.replace, line 506), before it
\* has added anything.
ChatReply(status, body) ==
    IF body.kind = "malformed" THEN ChatError("Unexpected token < in JSON")
    ELSE IF body.kind = "null"
         THEN ChatError("Cannot read properties of null")
    ELSE IF ~ResponseOk(status) \/ ~Truthy(body.success)
         THEN ChatError(IF Truthy(body.error) THEN body.error
                        ELSE "Erreur de l'API Chat.")
    ELSE IF body.response = "undefined"
         THEN ChatError("Cannot read properties of undefined")
    ELSE body.response

\* No body has arrived (yet, or ever when fetch is rejected)
NoChatBody == [kind |-> "none", success |-> "undefined",
               error |-> "undefined", response |-> "undefined"]

\* An invocation of sendChatMessage: where it stands, the text the input
\* held, and the status and body it has received
IdleSend == [pc |-> "idle", input |-> "", status |-> 0, body |-> NoChatBody]

IdleChat == [messages |-> <<>>, send |-> [i \in CallIds |-> IdleSend]]

AddChatMessageNewestFirst(messages, content, isUser) ==
    <<[content |-> content, isUser |-> isUser]>> \o messages

\* lines 500-512: appState.chatMessages.push({ content, isUser, timestamp })
AddChatMessage(messages, content, isUser) ==
    Append(messages, [content |-> content, isUser |-> isUser])

ChatFrame == UNCHANGED <<envVars, modelVars, batch>>

\* lines 517-531: the send button is clicked (or Enter pressed) with text in
\* the input; a blank message returns, any other is added and fetched
SendChatMessage(i, text) ==
    /\ chat.send[i].pc = "idle"
    /\ \A j \in CallIds : j < i => chat.send[j].pc # "idle"
    /\ chat' = IF Trim(text) = ""
               THEN [chat EXCEPT !.send[i] =
                        [@ EXCEPT !.pc = "returned", !.input = text]]
               ELSE [chat EXCEPT
                        !.send[i] = [@ EXCEPT !.pc = "awaitFetch",
                                              !.input = text],
                        !.messages = AddChatMessage(@, Trim(text), TRUE)]
    /\ ChatFrame

\* line 531: fetch is fulfilled with a Response
ChatFetchFulfil(i, status) ==
    /\ chat.send[i].pc = "awaitFetch"
    /\ chat' = [chat EXCEPT !.send[i] =
                   [@ EXCEPT !.pc = "awaitJson", !.status = status]]
    /\ ChatFrame

\* line 531: fetch is rejected; the catch block adds the error
ChatFetchReject(i) ==
    /\ chat.send[i].pc = "awaitFetch"
    /\ chat' = [chat EXCEPT
                   !.send[i] = [@ EXCEPT !.pc = "done"],
                   !.messages = AddChatMessage(@, ChatError("Failed to fetch"),
                                               FALSE)]
    /\ ChatFrame

\* lines 536-545: json() settles; the reply or the error is added
ChatJsonSettle(i, body) ==
    /\ chat.send[i].pc = "awaitJson"
    /\ chat' = [chat EXCEPT
                   !.send[i] = [@ EXCEPT !.pc = "done", !.body = body],
                   !.messages = AddChatMessage(@,
                                    ChatReply(chat.send[i].status, body),
                                    FALSE)]
    /\ ChatFrame

-----------------------------------------------------------------------------
(* Configuration state: loadAvailableModels, changeModel *)

\* line 26
DefaultModel == "llama3.1:8b-instruct-q8_0"

ModelNames == {"a", "b", DefaultModel}

Range(seq) == {seq[k] : k \in DOMAIN seq}

\* Lists of models, by name, without repetition
ModelLists ==
    {m \in UNION {[1..n -> ModelNames] : n \in 1..MaxModels} :
        \A j, k \in DOMAIN m : j # k => m[j] # m[k]}

\* The options the page's markup gives #global-model-select before any
\* refresh has filled it.
PageOptionLists == ModelLists \cup {<<>>}

\* What the fetch of /api/ollama/models and response.json() can produce
LoadResponses ==
    {[kind |-> "reject", success |-> "undefined", hasModels |-> FALSE,
      models |-> <<>>, error |-> "undefined"],
     [kind |-> "malformed", success |-> "undefined", hasModels |-> FALSE,
      models |-> <<>>, error |-> "undefined"]}
    \cup {r \in [kind : {"object"}, success : {"true", "false"},
                 hasModels : BOOLEAN, models : ModelLists \cup {<<>>},
                 error : {"undefined", "x"}] :
            /\ ~r.hasModels => r.models = <<>>
            /\ r.success = "true" => r.error = "undefined"}

\* No response: the operation last run was not the settling of a refresh
NoResponse ==
    [kind |-> "none", success |-> "undefined", hasModels |-> FALSE,
     models |-> <<>>, error |-> "undefined"]

LoadSucceedsWhateverSuccess(r) ==
    /\ r.kind = "object"
    /\ r.hasModels
    /\ Len(r.models) > 0

\* line 240: data.success && data.models && data.models.length > 0 (line
\* 238 rejects on a body that is not JSON, line 237 on a network error)
LoadSucceeds(r) ==
    /\ r.kind = "object"
    /\ Truthy(r.success)
    /\ r.hasModels
    /\ Len(r.models) > 0

SavedModelInMemory(stored, selected) == selected

\* line 250: localStorage.getItem('selectedModel') || appState.selectedModel
SavedModel(stored, selected) == IF Truthy(stored) THEN stored ELSE selected

RevalidatedModelNoFallback(models, saved) == saved

RevalidatedModelFirst(models, saved) == models[1]

\* lines 251-257: the saved model when the list has it, else the first model
RevalidatedModel(models, saved) ==
    IF \E k \in DOMAIN models : models[k] = saved THEN saved ELSE models[1]

\* line 282: appState.selectedModel.split(':')[0]
ModelFamily(m) == IF m = DefaultModel THEN "llama3.1" ELSE m

\* lines 260, 286: `${n} modèles`
CountText(n) == ToString(n) \o " modèles"

\* The run of five operations that starts with nothing persisted: a refresh
\* returns [a, b], the user selects b, the page is loaded again, a refresh
\* returns [a, b], a refresh returns [a].  ScenarioStep gives the stage
\* reached when operation o follows stage s; calling loadAvailableModels and
\* the timeout of changeModel are part of no stage and leave it as it is.
RestartScenario ==
    <<[stage |-> "refreshed", op |-> "loadSettle", models |-> <<"a", "b">>],
      [stage |-> "selected", op |-> "changeModel", models |-> <<"b">>],
      [stage |-> "restarted", op |-> "restart", models |-> <<>>],
      [stage |-> "resumed", op |-> "loadSettle", models |-> <<"a", "b">>],
      [stage |-> "fellBack", op |-> "loadSettle", models |-> <<"a">>]>>

StageIndex(s) ==
    IF s = "start" THEN 0
    ELSE IF \E k \in DOMAIN RestartScenario : RestartScenario[k].stage = s
         THEN CHOOSE k \in DOMAIN RestartScenario : RestartScenario[k].stage = s
         ELSE Len(RestartScenario)

ScenarioStep(s, o) ==
    LET k == StageIndex(s) + 1
    IN  IF o.op \in {"loadAvailableModels", "confirmTimeout"} THEN s
        ELSE IF /\ k \in DOMAIN RestartScenario
                /\ o.op = RestartScenario[k].op
                /\ o.models = RestartScenario[k].models
                /\ o.ok
             THEN RestartScenario[k].stage
             ELSE "departed"

Before == [selectedModel |-> appState.selectedModel,
           availableModels |-> appState.availableModels,
           stored |-> localStorage]

\* The page as the DOMContentLoaded handler leaves it (lines 971-990): the
\* state of lines 23-30 and one loadAvailableModels awaiting its response.
FreshPage(options) ==
    [appState |-> [selectedModel |-> DefaultModel, availableModels |-> <<>>],
     selectOptions |-> options,
     selectValue |-> IF options = <<>> THEN "" ELSE options[1],
     statusDot |-> {"status-dot"},
     statusText |-> "",
     loads |-> 1,
     confirmTimers |-> 0]

\* lines 231-237: loadAvailableModels is called and awaits the fetch
LoadAvailableModels ==
    /\ loads < MaxLoads
    /\ loads' = loads + 1
    /\ lastOp' = [op |-> "loadAvailableModels", ok |-> TRUE, models |-> <<>>,
                  response |-> NoResponse, settled |-> "pending",
                  before |-> Before]
    /\ scenario' = ScenarioStep(scenario, lastOp')
    /\ UNCHANGED <<appState, localStorage, selectOptions, selectValue,
                   statusDot, statusText, confirmTimers, refreshed, picked,
                   envVars, batch, chat>>

\* lines 237-268: the response of one loadAvailableModels arrives
LoadSettle(r) ==
    /\ loads > 0
    /\ loads' = loads - 1
    /\ lastOp' = [op |-> "loadSettle", ok |-> LoadSucceeds(r),
                  models |-> r.models, response |-> r,
                  settled |-> "fulfilled", before |-> Before]
    /\ scenario' = ScenarioStep(scenario, lastOp')
    /\ IF LoadSucceeds(r)
       THEN LET chosen == RevalidatedModel(r.models,
                              SavedModel(localStorage, appState.selectedModel))
            IN  /\ appState' = [selectedModel |-> chosen,
                                availableModels |-> r.models]
                /\ selectOptions' = r.models
                /\ selectValue' = chosen
                /\ statusDot' = {"status-dot", "connected"}
                /\ statusText' = CountText(Len(r.models))
                /\ refreshed' = TRUE
       ELSE /\ statusDot' = {"status-dot", "error"}
            /\ statusText' = "Ollama offline"
            /\ UNCHANGED <<appState, selectOptions, selectValue, refreshed>>
    /\ UNCHANGED <<localStorage, confirmTimers, picked, envVars, batch, chat>>

\* lines 274-288: the user picks option v of the select; its change event
\* runs changeModel
ChangeModel(v) ==
    /\ v \in Range(selectOptions)
    /\ confirmTimers < MaxConfirmTimers
    /\ selectValue' = v
    /\ appState' = [appState EXCEPT !.selectedModel = v]
    /\ localStorage' = v
    /\ statusDot' = {"status-dot", "connected", "confirming"}
    /\ statusText' = "Activé : " \o ModelFamily(v)
    /\ confirmTimers' = confirmTimers + 1
    /\ picked' = TRUE
    /\ lastOp' = [op |-> "changeModel", ok |-> TRUE, models |-> <<v>>,
                  response |-> NoResponse, settled |-> "fulfilled",
                  before |-> Before]
    /\ scenario' = ScenarioStep(scenario, lastOp')
    /\ UNCHANGED <<selectOptions, loads, refreshed, envVars, batch, chat>>

\* lines 284-287: the timeout set by changeModel
ConfirmTimeout ==
    /\ confirmTimers > 0
    /\ confirmTimers' = confirmTimers - 1
    /\ statusDot' = statusDot \ {"confirming"}
    /\ statusText' = CountText(Len(appState.availableModels))
    /\ lastOp' = [op |-> "confirmTimeout", ok |-> TRUE, models |-> <<>>,
                  response |-> NoResponse, settled |-> "fulfilled",
                  before |-> Before]
    /\ scenario' = ScenarioStep(scenario, lastOp')
    /\ UNCHANGED <<appState, localStorage, selectOptions, selectValue, loads,
                   refreshed, picked, envVars, batch, chat>>

\* The page is loaded again: everything but localStorage starts afresh.
Restart(options) ==
    /\ appState' = FreshPage(options).appState
    /\ selectOptions' = options
    /\ selectValue' = FreshPage(options).selectValue
    /\ statusDot' = FreshPage(options).statusDot
    /\ statusText' = FreshPage(options).statusText
    /\ loads' = FreshPage(options).loads
    /\ confirmTimers' = FreshPage(options).confirmTimers
    /\ refreshed' = FALSE
    /\ picked' = FALSE
    /\ lastOp' = [op |-> "restart", ok |-> TRUE, models |-> <<>>,
                  response |-> NoResponse, settled |-> "pending",
                  before |-> Before]
    /\ scenario' = ScenarioStep(scenario, lastOp')
    /\ chat' = IdleChat
    /\ UNCHANGED <<localStorage, envVars, batch>>

InitEnvelope ==
    /\ call = [i \in CallIds |-> IdleCall]
    /\ classActive = [l \in LoadingIds |-> FALSE]
    /\ innerHTML = [r \in ResultIds |-> Empty]
    /\ batch = IdleBatch
    /\ chat = IdleChat

InitPage(options) ==
    /\ appState = FreshPage(options).appState
    /\ selectOptions = options
    /\ selectValue = FreshPage(options).selectValue
    /\ statusDot = FreshPage(options).statusDot
    /\ statusText = FreshPage(options).statusText
    /\ loads = FreshPage(options).loads
    /\ confirmTimers = FreshPage(options).confirmTimers
    /\ refreshed = FALSE
    /\ picked = FALSE
    /\ localStorage = "null"
    /\ lastOp = [op |-> "restart", ok |-> TRUE, models |-> <<>>,
                 response |-> NoResponse, settled |-> "pending",
                 before |-> [selectedModel |-> DefaultModel,
                             availableModels |-> <<>>, stored |-> "null"]]
    /\ scenario = "start"

Init == InitEnvelope /\ InitPage(<<>>)

InitConfig == InitEnvelope /\ \E options \in PageOptionLists : InitPage(options)

\* The request envelope under any order of timer and network events
Next ==
    \/ \E i \in CallIds, site \in Sites : MakeApiRequest(i, site)
    \/ \E i \in CallIds : TimerFire(i)
    \/ \E i \in CallIds, status \in Statuses : FetchFulfil(i, status)
    \/ \E i \in CallIds : FetchReject(i)
    \/ \E i \in CallIds, body \in Bodies : JsonSettle(i, body)

Spec == Init /\ [][Next]_vars

\* The request envelope with a clock; the content of the response does not
\* change the timing, so one UI action and three bodies stand for all.
TimedSites == {"generateComfyUIVideo"}
TimedBodies == {[kind |-> "object", success |-> "true", error |-> "undefined"],
                [kind |-> "object", success |-> "false", error |-> "x"],
                Malformed}

NextTimed ==
    \/ \E i \in CallIds, site \in TimedSites : MakeApiRequest(i, site)
    \/ \E i \in CallIds : TimerFireOnTime(i)
    \/ \E i \in CallIds, status \in Statuses : FetchFulfil(i, status)
    \/ \E i \in CallIds : FetchReject(i)
    \/ \E i \in CallIds : BodyArrive(i)
    \/ \E i \in CallIds, body \in TimedBodies : JsonSettleOnTime(i, body)
    \/ Tick

SpecTimed == Init /\ [][NextTimed]_vars

\* The handlers of the buttons, with their checks before makeApiRequest; one
\* status and two bodies stand for the responses, next to a rejected fetch.
GateStatuses == {200}
GateBodies == {[kind |-> "object", success |-> "true", error |-> "undefined"],
               [kind |-> "object", success |-> "false", error |-> "x"]}

NextSignGate ==
    \/ \E i \in CallIds, op \in SignOperations, sign \in SignValues,
          accept \in BOOLEAN : UserAction(i, op, sign, accept)
    \/ \E i \in CallIds : TimerFire(i)
    \/ \E i \in CallIds, status \in GateStatuses : FetchFulfil(i, status)
    \/ \E i \in CallIds : FetchReject(i)
    \/ \E i \in CallIds, body \in GateBodies : JsonSettle(i, body)

SpecSignGate == Init /\ [][NextSignGate]_vars

NextBatchGate ==
    \/ \E i \in CallIds, op \in BatchOperations, sign \in SignValues,
          accept \in BOOLEAN : UserAction(i, op, sign, accept)
    \/ \E i \in CallIds : TimerFire(i)
    \/ \E i \in CallIds, status \in GateStatuses : FetchFulfil(i, status)
    \/ \E i \in CallIds : FetchReject(i)
    \/ \E i \in CallIds, body \in GateBodies : JsonSettle(i, body)

SpecBatchGate == Init /\ [][NextBatchGate]_vars

\* A single-unit and a batch pipeline, launched after a confirmation, under
\* an event loop that runs due timers and a network whose calls settle.
LaunchOperations == {"generateSingleSignMontage", "generateFullMontage"}

NextLaunch ==
    \/ \E i \in CallIds, op \in LaunchOperations, sign \in SignValues,
          accept \in BOOLEAN : UserAction(i, op, sign, accept)
    \/ \E i \in CallIds : TimerFire(i)
    \/ \E i \in CallIds, status \in GateStatuses : FetchFulfil(i, status)
    \/ \E i \in CallIds : FetchReject(i)
    \/ \E i \in CallIds, body \in GateBodies : JsonSettle(i, body)

FetchSettles(i) ==
    FetchReject(i) \/ \E status \in GateStatuses : FetchFulfil(i, status)

BodySettles(i) == \E body \in GateBodies : JsonSettle(i, body)

SpecLaunch ==
    /\ Init
    /\ [][NextLaunch]_vars
    /\ \A i \in CallIds :
          /\ WF_vars(TimerFire(i))
          /\ WF_vars(FetchSettles(i))
          /\ WF_vars(BodySettles(i))

\* One batch at a time, from the click to the rendered report
NextBatch ==
    \/ \E i \in CallIds, op \in ReportOperations : BatchLaunch(i, op)
    \/ \E i \in CallIds, n \in 1..MaxItems : BatchStart(i, n)
    \/ \E ok \in BOOLEAN : BatchItem(ok)
    \/ \E i \in CallIds : BatchRespond(i)
    \/ \E i \in CallIds : TimerFire(i)
    \/ \E i \in CallIds : RequestLost(i)
    \/ \E i \in CallIds : BatchSettle(i)

SpecBatch == Init /\ [][NextBatch]_vars

\* The chat, under a network whose calls settle
NextChat ==
    \/ \E i \in CallIds, text \in ChatInputs : SendChatMessage(i, text)
    \/ \E i \in CallIds, status \in Statuses : ChatFetchFulfil(i, status)
    \/ \E i \in CallIds : ChatFetchReject(i)
    \/ \E i \in CallIds, body \in ChatBodies : ChatJsonSettle(i, body)

ChatFetchSettles(i) ==
    ChatFetchReject(i) \/ \E status \in Statuses : ChatFetchFulfil(i, status)

ChatBodySettles(i) == \E body \in ChatBodies : ChatJsonSettle(i, body)

SpecChat ==
    /\ Init
    /\ [][NextChat]_vars
    /\ \A i \in CallIds :
          /\ WF_vars(ChatFetchSettles(i))
          /\ WF_vars(ChatBodySettles(i))

\* The configuration state
NextConfig ==
    \/ LoadAvailableModels
    \/ \E r \in LoadResponses : LoadSettle(r)
    \/ \E v \in ModelNames : ChangeModel(v)
    \/ ConfirmTimeout
    \/ \E options \in PageOptionLists : Restart(options)

SpecConfig == InitConfig /\ [][NextConfig]_vars

-----------------------------------------------------------------------------
(* The request envelope: claims C1 to C8 *)

Done(i) == call[i].pc = "done"
Loading(i) == SiteLoading(call[i].site)
Target(i) == SiteResult(call[i].site)
Before_(i, e, f) ==
    \E j, k \in DOMAIN call[i].events :
        call[i].events[j] = e /\ call[i].events[k] = f /\ j < k
Max(a, b) == IF a >= b THEN a ELSE b

\* An error was raised in invocation i: fetch rejected, the body could not
\* be parsed or used, the status was not OK, or success was falsey.
ErrorRaised(i) ==
    \/ call[i].fetchState = "rejected"
    \/ call[i].body.kind # "object"
    \/ ~ResponseOk(call[i].status)
    \/ ~Truthy(call[i].body.success)

\* C1: in the step that starts an invocation its loading indicator becomes
\* active, and in the step in which its promise resolves the indicator is
\* inactive and the promise is fulfilled, whatever the outcome branch.
C1_IndicatorBracketsCall ==
    [][\A i \in CallIds :
          /\ call[i].pc = "idle" /\ call'[i].pc # "idle"
                => classActive'[SiteLoading(call'[i].site)]
          /\ call[i].pc # "done" /\ call'[i].pc = "done"
                => /\ ~classActive'[SiteLoading(call'[i].site)]
                   /\ call'[i].settled = "fulfilled"]_vars

\* C1 witness: one invocation has resolved on the transport-exception branch
\* and another on the success branch, and their indicators are inactive.
C1_Witness ==
    \E i, j \in CallIds :
        /\ Done(i) /\ call[i].fetchState = "rejected"
        /\ Done(j) /\ call[j].ret # JsNull
        /\ ~classActive[Loading(i)] /\ ~classActive[Loading(j)]

\* C2 (as claimed): in every invocation the indicator is activated before
\* fetch is dispatched, fetch is dispatched before the indicator is cleared,
\* and the indicator is cleared before the call resolves.
C2_ActivatedBeforeDispatch ==
    \A i \in CallIds :
        /\ call[i].pc # "idle" => Before_(i, "addActive", "fetch")
        /\ Done(i) => /\ Before_(i, "fetch", "removeActive")
                      /\ Before_(i, "removeActive", "resolve")

\* C3 (as claimed): the loading indicator of every invocation in flight is
\* active, also when invocations sharing an indicator overlap.
C3_InFlightShowsLoading ==
    \A i \in CallIds : InFlight(i) => classActive[Loading(i)]

\* C4: an invocation whose response arrived has lasted as long as the later
\* of the arrival of the response (its body included) and the 500 ms floor.
C4_DurationIsLaterOfResponseAndFloor ==
    \A i \in CallIds :
        Done(i) /\ call[i].fetchState = "fulfilled"
            => call[i].age = Max(call[i].arrivedAge, MinimumLoadingTime)

\* C4 witness: one response faster than the floor, lasting the floor, and
\* one slower than the floor, lasting as long as the response took.
C4_Witness ==
    \E i, j \in CallIds :
        /\ Done(i) /\ call[i].fetchState = "fulfilled"
        /\ call[i].arrivedAge < MinimumLoadingTime
        /\ call[i].age = MinimumLoadingTime
        /\ Done(j) /\ call[j].fetchState = "fulfilled"
        /\ call[j].arrivedAge > MinimumLoadingTime
        /\ call[j].age = call[j].arrivedAge

\* C5 (as claimed): the payload is returned exactly when the status is OK and
\* success is the boolean true; otherwise null is returned.
C5_PayloadIffStrictlyTrue ==
    \A i \in CallIds :
        Done(i) =>
            (call[i].ret # JsNull <=>
                /\ call[i].fetchState = "fulfilled"
                /\ ResponseOk(call[i].status)
                /\ call[i].body.kind = "object"
                /\ call[i].body.success = "true")

\* C5 (amended): the parsed payload is returned exactly when the status is OK
\* and the payload's success field is truthy; otherwise null is returned.
C5_PayloadIffTruthy ==
    \A i \in CallIds :
        Done(i) =>
            IF /\ call[i].fetchState = "fulfilled"
               /\ ResponseOk(call[i].status)
               /\ call[i].body.kind = "object"
               /\ Truthy(call[i].body.success)
            THEN call[i].ret = call[i].body
            ELSE call[i].ret = JsNull

\* C5 witness: status 200 and success 1 (truthy, not true): payload returned.
C5_Witness ==
    \E i \in CallIds :
        /\ Done(i) /\ call[i].status = 200
        /\ call[i].body.kind = "object" /\ call[i].body.success = "1"
        /\ call[i].ret = call[i].body

\* C6 (as claimed): on a failed response (status not OK, or success falsey)
\* the message shown is the payload's error when it has one, and otherwise
\* the message derived from the status code.
C6_FailureMessagePrecedence ==
    \A i \in CallIds :
        /\ Done(i) /\ call[i].fetchState = "fulfilled"
        /\ \/ ~ResponseOk(call[i].status)
           \/ call[i].body.kind = "object" /\ ~Truthy(call[i].body.success)
        => call[i].shown =
              IF call[i].body.kind = "object" /\ Truthy(call[i].body.error)
              THEN call[i].body.error
              ELSE HttpMessage(call[i].status)

\* C7: the promise of an invocation is never rejected, and an invocation in
\* which an error was raised resolves to null with the error logged and its
\* message shown in the result target, in that order.
C7_ErrorsNeverPropagate ==
    \A i \in CallIds :
        /\ call[i].settled # "rejected"
        /\ Done(i) /\ ErrorRaised(i)
            => /\ call[i].settled = "fulfilled"
               /\ call[i].ret = JsNull
               /\ call[i].logged
               /\ call[i].shown # ""
               /\ Before_(i, "console.error", "showError")
               /\ Before_(i, "showError", "resolve")
               /\ innerHTML[Target(i)].by = i
                    => innerHTML[Target(i)] = ErrorBox(call[i].shown, i)

\* C7 witness: a rejected fetch and an unparsable body have both resolved to
\* null, logged and shown.
C7_Witness ==
    \E i, j \in CallIds :
        /\ Done(i) /\ call[i].fetchState = "rejected"
        /\ Done(j) /\ call[j].body.kind = "malformed"
        /\ call[i].ret = JsNull /\ call[j].ret = JsNull
        /\ call[i].logged /\ call[j].logged
        /\ innerHTML[Target(j)] = ErrorBox("Unexpected token < in JSON", j)

\* C8: a resolved invocation either returned a payload, showed no error and
\* its caller rendered the result, or returned null, showed an error and its
\* caller rendered nothing; what it left in the result target agrees.
C8_OutcomesExclusive ==
    \A i \in CallIds :
        Done(i) =>
            /\ \/ call[i].ret # JsNull /\ call[i].shown = "" /\ call[i].rendered
               \/ call[i].ret = JsNull /\ call[i].shown # "" /\ ~call[i].rendered
            /\ innerHTML[Target(i)].by = i
                 => innerHTML[Target(i)].kind =
                       IF call[i].ret = JsNull THEN "error" ELSE "success"

\* C8 witness: two invocations on the same result target, one failed and
\* one succeeded.
C8_Witness ==
    \E i, j \in CallIds :
        /\ Done(i) /\ Done(j) /\ Target(i) = Target(j)
        /\ call[i].ret = JsNull /\ call[i].shown = "x"
        /\ call[j].ret # JsNull /\ innerHTML[Target(j)] = SuccessBox(j)

\* C19 (as claimed): an invocation whose fetch was rejected has not resolved,
\* nor cleared its loading indicator, before the 500 ms floor has elapsed.
C19_RejectionWaitsForFloor ==
    \A i \in CallIds :
        /\ call[i].fetchState = "rejected"
        /\ \/ Done(i)
           \/ \E k \in DOMAIN call[i].events :
                 call[i].events[k] = "removeActive"
        => call[i].age >= MinimumLoadingTime

-----------------------------------------------------------------------------
(* The checks before a request: claims C14 and C15 *)

Dispatched(i) ==
    \E k \in DOMAIN call[i].events : call[i].events[k] = "fetch"

\* C14 (as claimed): the request of a batch operation (the 12 daily
\* horoscopes, the batch of videos, the 12 montages, the batch upload) is
\* dispatched only after the user has accepted a confirmation in the same
\* invocation, and a declined confirmation dispatches nothing.
C14_BatchNeedsConfirmation ==
    \A i \in CallIds :
        call[i].site \in {"generateDailyHoroscopes",
                          "generateComfyUIBatchVideos",
                          "generateFullMontage", "uploadBatchToYouTube"}
        => /\ Dispatched(i) =>
                /\ call[i].confirmed = "true"
                /\ Before_(i, "confirm", "fetch")
           /\ call[i].confirmed = "false" => ~Dispatched(i)

\* C15: a handler that needs a sign (generateIndividualHoroscope,
\* generateComfyUIVideo, generateSingleSignMontage,
\* uploadCurrentSignToYouTube, uploadCurrentSignToTikTok) and finds none
\* alerts the user and returns in the same step: no confirmation is asked,
\* makeApiRequest is not entered, nothing is fetched, and no loading
\* indicator or result target changes.
C15_NoSignNoRequest ==
    [][\A i \in CallIds :
          /\ /\ call[i].pc = "idle" /\ call'[i].pc # "idle"
             /\ call'[i].site \in {"generateIndividualHoroscope",
                                    "generateComfyUIVideo",
                                    "generateSingleSignMontage",
                                    "uploadCurrentSignToYouTube",
                                    "uploadCurrentSignToTikTok"}
             /\ call'[i].sign = ""
             => /\ call'[i].events = <<"alert">>
                /\ call'[i].confirmed = "unasked"
                /\ call'[i].pc = "returned"
                /\ call'[i].fetchState = "none"
                /\ classActive' = classActive
                /\ innerHTML' = innerHTML
          /\ call[i].pc = "returned" => call'[i] = call[i]]_vars

\* C15 witness: while a request shows its loading indicator, a handler that
\* needs a sign and would ask for a confirmation has been run with no sign:
\* it alerted and returned, and the indicator still shows.
C15_Witness ==
    \E i, j \in CallIds :
        /\ InFlight(i) /\ classActive[Loading(i)]
        /\ call[j].site = "uploadCurrentSignToTikTok"
        /\ Loading(j) = Loading(i)
        /\ call[j].pc = "returned" /\ call[j].sign = ""
        /\ call[j].events = <<"alert">>

-----------------------------------------------------------------------------
(* Batches: claims C16 and C17 *)

Declared == [k \in 1..batch.declared |-> k]
Failed == {k \in DOMAIN batch.results : ~batch.results[k].success}

\* The report of the batch is what the result target shows
OnDisplay ==
    /\ batch.status = "displayed"
    /\ innerHTML[SiteResult(batch.op)] = SuccessBox(batch.invocation)

\* C16: while a batch runs, the units attempted so far are the first ones in
\* declared order, each attempted once and with one recorded result, also
\* after failures; and when the batch is complete every declared unit has
\* been attempted exactly once, in declared order, and has exactly one
\* recorded result, a failure being recorded with its reason.
C16_EveryItemAttemptedOnce ==
    /\ batch.status # "idle" =>
          /\ Len(batch.attempts) <= batch.declared
          /\ batch.attempts = SubSeq(Declared, 1, Len(batch.attempts))
          /\ Len(batch.results) = Len(batch.attempts)
          /\ \A k \in DOMAIN batch.results :
                /\ batch.results[k].item = batch.attempts[k]
                /\ ~batch.results[k].success =>
                      batch.results[k].error # "undefined"
    /\ batch.status = "running" => Len(batch.attempts) < batch.declared
    /\ batch.status \in {"complete", "displayed"} =>
          batch.attempts = Declared

\* C16 witness: a batch of the largest size is complete; its first unit and
\* a later one failed and the units after them were attempted.
C16_Witness ==
    /\ batch.status = "complete"
    /\ batch.declared = MaxItems
    /\ batch.attempts = Declared
    /\ 1 \in Failed /\ Cardinality(Failed) >= 2
    /\ batch.results[MaxItems].success

-----------------------------------------------------------------------------
(* Launched pipelines: claim C18 *)

-----------------------------------------------------------------------------
(* The configuration state: claims C9 to C13 and C20 *)

LoadSucceeded == lastOp.op = "loadSettle" /\ lastOp.ok

\* C9: once a refresh of this page has succeeded the active model is one of
\* the available models; before any successful refresh and any selection by
\* the user it is the hardcoded default.
C9_ActiveModelIsAvailable ==
    /\ refreshed => appState.selectedModel \in Range(appState.availableModels)
    /\ ~refreshed /\ ~picked => appState.selectedModel = DefaultModel

\* C9 witness: after a successful refresh the user has picked the second of
\* two available models.
C9_Witness ==
    /\ refreshed /\ lastOp.op = "changeModel"
    /\ Len(appState.availableModels) = 2
    /\ appState.selectedModel = appState.availableModels[2]

\* C10 (as claimed): a successful refresh installs the returned list, keeps
\* the model that was active when it is in the list and otherwise makes the
\* first model of the list active.
C10_KeepsActiveModel ==
    LoadSucceeded =>
        /\ appState.availableModels = lastOp.models
        /\ appState.selectedModel =
              IF lastOp.before.selectedModel \in Range(lastOp.models)
              THEN lastOp.before.selectedModel
              ELSE lastOp.models[1]

\* C10 (amended): a successful refresh installs the returned list and makes
\* active the saved model (the persisted selection when there is one, else
\* the model that was active) when it is in the list, and otherwise the
\* first model of the list.
C10_KeepsSavedModel ==
    LoadSucceeded =>
        /\ appState.availableModels = lastOp.models
        /\ selectOptions = lastOp.models
        /\ appState.selectedModel =
              LET saved == IF lastOp.before.stored # "null"
                           THEN lastOp.before.stored
                           ELSE lastOp.before.selectedModel
              IN  IF saved \in Range(lastOp.models) THEN saved
                  ELSE lastOp.models[1]

\* C10 witness: the persisted selection is absent from the returned list and
\* the first model of the list has become active.
C10_Witness ==
    /\ LoadSucceeded
    /\ lastOp.before.stored # "null"
    /\ lastOp.before.stored = lastOp.before.selectedModel
    /\ lastOp.before.stored \notin Range(lastOp.models)
    /\ appState.selectedModel = lastOp.models[1]

\* C11: a refresh that fails (the fetch is rejected, the body cannot be
\* parsed, success is falsey, or the list of models is missing or empty)
\* leaves the active model, the available models and the persisted selection
\* as they were, sets the connection status to the error state, and its
\* promise is fulfilled, not rejected.
C11_FailedRefreshChangesNothing ==
    LET r == lastOp.response
    IN  /\ lastOp.op = "loadSettle"
        /\ \/ r.kind \in {"reject", "malformed"}
           \/ r.success # "true"
           \/ ~r.hasModels
           \/ r.models = <<>>
        => /\ appState.selectedModel = lastOp.before.selectedModel
           /\ appState.availableModels = lastOp.before.availableModels
           /\ localStorage = lastOp.before.stored
           /\ statusDot = {"status-dot", "error"}
           /\ statusText = "Ollama offline"
           /\ lastOp.settled = "fulfilled"

\* C11 witness: with a selection persisted and models available, a response
\* with success false and a list of models has left all of it as it was.
C11_Witness ==
    /\ lastOp.op = "loadSettle"
    /\ lastOp.response.kind = "object"
    /\ lastOp.response.success = "false"
    /\ lastOp.response.models # <<>>
    /\ lastOp.response.models # appState.availableModels
    /\ appState.availableModels # <<>>
    /\ localStorage # "null"
    /\ statusDot = {"status-dot", "error"}

\* C12: with nothing persisted at the start, after the refresh returning
\* [a, b] the active model is a; after b is selected the persisted value is
\* b; after the page is loaded again and its refresh returns [a, b] the
\* active model is b; after a further refresh returning [a] the active model
\* is a (and the persisted value is still b).
C12_RestartScenario ==
    /\ scenario = "refreshed" => appState.selectedModel = "a"
    /\ scenario = "selected" => localStorage = "b"
    /\ scenario = "restarted" =>
          /\ localStorage = "b"
          /\ appState.selectedModel = DefaultModel
    /\ scenario = "resumed" => appState.selectedModel = "b"
    /\ scenario = "fellBack" =>
          /\ appState.selectedModel = "a"
          /\ localStorage = "b"

\* C12 witness: the five operations have been run to the end.
C12_Witness ==
    /\ scenario = "fellBack"
    /\ lastOp.op = "loadSettle"
    /\ lastOp.before.selectedModel = "b"
    /\ appState.availableModels = <<"a">>

\* C13 (as claimed): after changeModel the active model is the chosen one and
\* the persisted selection equals the active model; and once the timeouts
\* scheduled by the selections have fired, the status is the plain connected
\* one (no 'confirming') showing the number of available models.
C13_SelectionPersistsAndReverts ==
    /\ lastOp.op = "changeModel" =>
          /\ appState.selectedModel = lastOp.models[1]
          /\ localStorage = appState.selectedModel
    /\ lastOp.op = "confirmTimeout" /\ confirmTimers = 0 =>
          /\ statusDot = {"status-dot", "connected"}
          /\ statusText = CountText(Len(appState.availableModels))

\* C20: the persisted selection changes only in a step of changeModel (so a
\* refresh that falls back to the first model leaves it as it was), and a
\* successful refresh whose list contains the persisted selection makes it
\* the active model, whatever the active model was before.
C20_OnlyChangeModelPersists ==
    [][/\ localStorage' # localStorage => lastOp'.op = "changeModel"
       /\ /\ lastOp'.op = "loadSettle" /\ lastOp'.ok
          /\ lastOp' # lastOp
          /\ localStorage # "null"
          /\ localStorage \in Range(lastOp'.models)
          => appState'.selectedModel = localStorage]_vars

\* C20 witness: the persisted model was missing from the previous list, so
\* another model was active; a refresh whose list has both has made the
\* persisted one active again, and it is still persisted.
C20_Witness ==
    /\ LoadSucceeded
    /\ lastOp.before.stored # "null"
    /\ lastOp.before.availableModels # <<>>
    /\ lastOp.before.stored \notin Range(lastOp.before.availableModels)
    /\ lastOp.before.selectedModel # lastOp.before.stored
    /\ lastOp.before.selectedModel \in Range(lastOp.models)
    /\ appState.selectedModel = lastOp.before.stored
    /\ localStorage = lastOp.before.stored

-----------------------------------------------------------------------------
(* The chat transcript: claim C21 *)

IsPrefix(s, t) == Len(s) <= Len(t) /\ SubSeq(t, 1, Len(s)) = s

Sending(i) == chat.send[i].pc \in {"awaitFetch", "awaitJson"}

\* The call came back with a reply that can be shown
ChatSucceeded(status, body) ==
    /\ body.kind = "object"
    /\ ResponseOk(status)
    /\ Truthy(body.success)
    /\ body.response # "undefined"

ChatErrorTexts ==
    {ChatError(m) : m \in {"Failed to fetch", "Unexpected token < in JSON",
                           "Cannot read properties of null",
                           "Cannot read properties of undefined",
                           "Erreur de l'API Chat.", "x"}}

UserEntries == {k \in 1..Len(chat.messages) : chat.messages[k].isUser}
AssistantEntries == {k \in 1..Len(chat.messages) : ~chat.messages[k].isUser}

\* Every step leaves the entries there are where they are, and adds what the
\* invocation that takes the step is due
C21_Step ==
    /\ IsPrefix(chat.messages, chat'.messages)
    /\ \A i \in CallIds :
          LET before == chat.send[i]
              after == chat'.send[i]
          IN  /\ before.pc \in {"returned", "done"} => after = before
              /\ (before.pc = "idle" /\ after.pc # "idle") =>
                    IF Trim(after.input) = ""
                    THEN after.pc = "returned"
                         /\ chat'.messages = chat.messages
                    ELSE after.pc = "awaitFetch"
                         /\ chat'.messages =
                               Append(chat.messages,
                                      [content |-> Trim(after.input),
                                       isUser |-> TRUE])
              /\ (before.pc = "awaitFetch" /\ after.pc = "awaitJson") =>
                    chat'.messages = chat.messages
              /\ (Sending(i) /\ after.pc = "done") =>
                    /\ Len(chat'.messages) = Len(chat.messages) + 1
                    /\ LET entry == chat'.messages[Len(chat'.messages)]
                       IN  /\ ~entry.isUser
                           /\ IF ChatSucceeded(after.status, after.body)
                              THEN entry.content = after.body.response
                              ELSE entry.content \in ChatErrorTexts

\* One user entry per message sent, one assistant entry per call that ended
C21_Count ==
    /\ Cardinality(UserEntries) =
          Cardinality({i \in CallIds :
                         chat.send[i].pc \in {"awaitFetch", "awaitJson",
                                              "done"}})
    /\ Cardinality(AssistantEntries) =
          Cardinality({i \in CallIds : chat.send[i].pc = "done"})

\* C21: the chat transcript only grows at its end; whatever the interleaving
\* of overlapping sendChatMessage invocations, a non-blank message adds one
\* user entry when it is sent and, eventually, one assistant entry (the reply
\* on success, an error text on any failure); a blank message adds nothing
\* and starts no network call; entries are never modified, removed or
\* reordered.
C21_TranscriptAppendOnly ==
    /\ [][C21_Step]_vars
    /\ []C21_Count
    /\ \A i \in CallIds : Sending(i) ~> (chat.send[i].pc = "done")

\* Two overlapping invocations: the second fails first, then the first is
\* answered
C21_Witness ==
    /\ chat.send[1].pc = "done" /\ chat.send[2].pc = "done"
    /\ ChatSucceeded(chat.send[1].status, chat.send[1].body)
    /\ chat.send[2].body = NoChatBody
    /\ Len(chat.messages) = 4
    /\ chat.messages[1] = [content |-> "hi", isUser |-> TRUE]
    /\ chat.messages[2] = [content |-> "yo", isUser |-> TRUE]
    /\ chat.messages[3] = [content |-> ChatError("Failed to fetch"),
                           isUser |-> FALSE]
    /\ chat.messages[4] = [content |-> "reply", isUser |-> FALSE]

=============================================================================
